---- MODULE Spec2Model ----
(***************************************************************************)
(* Bounding-box algebra and overlap resolution of double-detection:        *)
(*   BoundingBox.intersects / merge / from_relative  (bounding_box.py)     *)
(*   BoundingBoxes.add_box / merge_intersection       (bounding_box.py)    *)
(*   double_detection                                 (double_detection.py)*)
(* Four specifications share the variables:                                *)
(*   SpecBox     one BoundingBox method call on two operands               *)
(*   SpecMerge   add_box calls followed by one merge_intersection call     *)
(*   SpecTwice   SpecMerge followed by further merge_intersection calls    *)
(*   SpecDetect  one double_detection call                                 *)
(***************************************************************************)
EXTENDS Integers, Sequences, FiniteSets, TLC

VARIABLES
    boxes,            \* BoundingBoxes.boxes (self.boxes; all_boxes.boxes in double_detection)
    merged_boxes,     \* local list of merge_intersection
    current_box,      \* local accumulator of merge_intersection: <<>> or <<box>>
    i,                \* scan index of the inner loop (1-based here, 0-based in Python)
    pc,               \* position inside merge_intersection
    input,            \* history: self.boxes as it was when merge_intersection was called
    src,              \* history: which input positions each live box was built from
    ncalls,           \* history: number of merge_intersection calls made
    a, b,             \* the two operands of a BoundingBox method call
    called,           \* which BoundingBox method was called on (a, b)
    result,           \* <<return value>> of that call, <<>> before it
    candidate_blocks, \* argument of double_detection: the block_rect of each candidate block
    score_thresh,     \* argument of double_detection
    blk,              \* number of candidate blocks the outer for loop has taken
    filtered_layout,  \* local list of double_detection
    tbl,              \* position of the inner for loop in filtered_layout (1-based)
    dpc,              \* position inside double_detection
    layout_log        \* history: the layout the detector returned for each block

mvars == <<boxes, merged_boxes, current_box, i, pc, input, src, ncalls>>
bvars == <<a, b, called, result>>
dvars == <<candidate_blocks, score_thresh, blk, filtered_layout, tbl, dpc, layout_log>>
vars  == <<boxes, merged_boxes, current_box, i, pc, input, src, ncalls,
           a, b, called, result,
           candidate_blocks, score_thresh, blk, filtered_layout, tbl, dpc, layout_log>>

----------------------------------------------------------------------------
(* Bounds *)

MaxBoxes  == 3        \* boxes added to a collection before merge_intersection
MaxCalls  == 2        \* merge_intersection calls on one collection (SpecTwice)
MaxCoord  == 2        \* pixel coordinates 0..MaxCoord of the operands of a method call
MaxBlocks == 2        \* candidate blocks handed to double_detection

PixelRange == 0..1    \* pixel coordinates of the boxes added to a collection
ScoreRange == 1..2    \* scores of the operands, of the boxes added to a collection and
                      \* of the detections, and values of score_thresh
LayoutSizes == 0..2   \* number of detections the detector returns for one block

----------------------------------------------------------------------------
(* BoundingBox *)

Min(p, q) == IF p <= q THEN p ELSE q
Max(p, q) == IF p >= q THEN p ELSE q

BoundingBox(x1, y1, x2, y2, score) ==
    [x1 |-> x1, y1 |-> y1, x2 |-> x2, y2 |-> y2, score |-> score]

to_list(self) == <<self.x1, self.y1, self.x2, self.y2>>

from_relative_far_corner(detected_box_coordinate, candidate_block_coordinate, score) ==
    LET block_x == candidate_block_coordinate[3]
        block_y == candidate_block_coordinate[4]
    IN  BoundingBox(detected_box_coordinate[1] + block_x,
                    detected_box_coordinate[2] + block_y,
                    detected_box_coordinate[3] + block_x,
                    detected_box_coordinate[4] + block_y, score)

from_relative(detected_box_coordinate, candidate_block_coordinate, score) ==
    LET block_x == candidate_block_coordinate[1]
        block_y == candidate_block_coordinate[2]
        rel_x1  == detected_box_coordinate[1]
        rel_y1  == detected_box_coordinate[2]
        rel_x2  == detected_box_coordinate[3]
        rel_y2  == detected_box_coordinate[4]
    IN  BoundingBox(rel_x1 + block_x, rel_y1 + block_y,
                    rel_x2 + block_x, rel_y2 + block_y, score)

intersects_strict(self, other) ==
    ~(self.x2 <= other.x1 \/ self.x1 >= other.x2 \/
      self.y2 <= other.y1 \/ self.y1 >= other.y2)

intersects(self, other) ==
    ~(self.x2 < other.x1 \/ self.x1 > other.x2 \/
      self.y2 < other.y1 \/ self.y1 > other.y2)

merge_keep_own_score(self, other) ==
    BoundingBox(Min(self.x1, other.x1), Min(self.y1, other.y1),
                Max(self.x2, other.x2), Max(self.y2, other.y2),
                self.score)

merge(self, other) ==
    BoundingBox(Min(self.x1, other.x1), Min(self.y1, other.y1),
                Max(self.x2, other.x2), Max(self.y2, other.y2),
                Max(self.score, other.score))

\* well-formed boxes (x1 <= x2, y1 <= y2) over a coordinate range and a score range
BoxesOver(coords, scores) ==
    {bx \in [x1 : coords, y1 : coords, x2 : coords, y2 : coords, score : scores] :
        bx.x1 <= bx.x2 /\ bx.y1 <= bx.y2}

OperandBoxes == BoxesOver(0..MaxCoord, ScoreRange)
AddedBoxes   == BoxesOver(PixelRange, ScoreRange)

CallIntersects ==
    /\ called = "none"
    /\ called' = "intersects"
    /\ result' = <<intersects(a, b)>>
    /\ UNCHANGED <<a, b>>

CallMerge ==
    /\ called = "none"
    /\ called' = "merge"
    /\ result' = <<merge(a, b)>>
    /\ UNCHANGED <<a, b>>

----------------------------------------------------------------------------
(* BoundingBoxes *)

add_box(self_boxes, box) == Append(self_boxes, box)

\* list.pop(0) in place of list.pop(k)
PopFront(s, k) == Tail(s)

\* list.pop(k): the list without its k-th element
PopAt(s, k) == SubSeq(s, 1, k - 1) \o SubSeq(s, k + 1, Len(s))

\* the inner while loop, run to its end from scan index k
RECURSIVE Scan(_, _, _)
Scan(cur, pending, k) ==
    IF k > Len(pending) THEN [box |-> cur, rest |-> pending]
    ELSE IF intersects(cur, pending[k])
         THEN Scan(merge(cur, pending[k]), PopAt(pending, k), k)
         ELSE Scan(cur, pending, k + 1)

\* the outer while loop, run to its end
RECURSIVE MergeLoop(_, _)
MergeLoop(pending, merged) ==
    IF pending = <<>> THEN merged
    ELSE LET r == Scan(Head(pending), Tail(pending), 1)
         IN  MergeLoop(r.rest, Append(merged, r.box))

\* the list a call of merge_intersection leaves in self.boxes
merge_intersection(bs) == MergeLoop(bs, <<>>)

AddBox(box) ==
    /\ pc = "build"
    /\ Len(boxes) < MaxBoxes
    /\ boxes' = add_box(boxes, box)
    /\ UNCHANGED <<merged_boxes, current_box, i, pc, input, src, ncalls>>

\* entry of merge_intersection: merged_boxes = []
Enter ==
    /\ merged_boxes' = <<>>
    /\ pc' = "outer"
    /\ input' = boxes
    /\ src' = [boxes |-> [n \in 1..Len(boxes) |-> {n}], current |-> {}, merged |-> <<>>]
    /\ ncalls' = ncalls + 1
    /\ UNCHANGED <<boxes, current_box, i>>

MergeStart == pc = "build" /\ Enter

MergeAgain == pc = "done" /\ ncalls < MaxCalls /\ Enter

OuterPop ==
    /\ pc = "outer"
    /\ boxes # <<>>
    /\ current_box' = <<Head(boxes)>>
    /\ boxes' = Tail(boxes)
    /\ i' = 1
    /\ pc' = "inner"
    /\ src' = [src EXCEPT !.boxes = Tail(@), !.current = Head(src.boxes)]
    /\ UNCHANGED <<merged_boxes, input, ncalls>>

\* the merge branch without the pop: the matched box stays in the pending list
InnerMergeNoPop ==
    /\ pc = "inner"
    /\ i <= Len(boxes)
    /\ intersects(current_box[1], boxes[i])
    /\ current_box' = <<merge(current_box[1], boxes[i])>>
    /\ src' = [src EXCEPT !.current = @ \cup src.boxes[i]]
    /\ UNCHANGED <<boxes, merged_boxes, i, pc, input, ncalls>>

InnerMerge ==
    /\ pc = "inner"
    /\ i <= Len(boxes)
    /\ intersects(current_box[1], boxes[i])
    /\ current_box' = <<merge(current_box[1], boxes[i])>>
    /\ boxes' = PopAt(boxes, i)
    /\ src' = [src EXCEPT !.boxes = PopAt(@, i), !.current = @ \cup src.boxes[i]]
    /\ UNCHANGED <<merged_boxes, i, pc, input, ncalls>>

InnerSkip ==
    /\ pc = "inner"
    /\ i <= Len(boxes)
    /\ ~intersects(current_box[1], boxes[i])
    /\ i' = i + 1
    /\ UNCHANGED <<boxes, merged_boxes, current_box, pc, input, src, ncalls>>

InnerExit ==
    /\ pc = "inner"
    /\ i > Len(boxes)
    /\ merged_boxes' = Append(merged_boxes, current_box[1])
    /\ pc' = "outer"
    /\ src' = [src EXCEPT !.merged = Append(@, src.current)]
    /\ UNCHANGED <<boxes, current_box, i, input, ncalls>>

OuterExit ==
    /\ pc = "outer"
    /\ boxes = <<>>
    /\ boxes' = merged_boxes
    /\ pc' = "done"
    /\ src' = [src EXCEPT !.boxes = src.merged]
    /\ UNCHANGED <<merged_boxes, current_box, i, input, ncalls>>

----------------------------------------------------------------------------
(* double_detection *)

\* candidate block rectangles: BoundingBox(x_1, y_1, x_2, y_2) of get_candidate_blocks
BlockRects == {BoundingBox(0, 0, 2, 2, 0), BoundingBox(1, 2, 4, 5, 0)}

\* what the detector can return for one block: block coordinates and score
Detections ==
    {[x_1 |-> r[1], y_1 |-> r[2], x_2 |-> r[3], y_2 |-> r[4], score |-> s] :
        r \in {<<0, 0, 1, 1>>, <<0, 1, 2, 2>>}, s \in ScoreRange}

SeqsOver(S, sizes) == UNION {[1..n -> S] : n \in sizes}

Layouts == SeqsOver(Detections, LayoutSizes)

\* [block for block in layout if block.score > score_thresh]
Filter(layout, thresh) == SelectSeq(layout, LAMBDA d : d.score > thresh)

\* for block, block_rect in candidate_blocks: layout = get_layout(model, block);
\* filtered_layout = [...]
DetectBlock ==
    /\ dpc = "blocks"
    /\ blk < Len(candidate_blocks)
    /\ \E layout \in Layouts :
          /\ layout_log' = Append(layout_log, layout)
          /\ filtered_layout' = Filter(layout, score_thresh)
    /\ blk' = blk + 1
    /\ tbl' = 1
    /\ dpc' = "tables"
    /\ UNCHANGED <<boxes, candidate_blocks, score_thresh>>

\* for table in filtered_layout: rel_coords, from_relative, add_box
AddTable ==
    /\ dpc = "tables"
    /\ tbl <= Len(filtered_layout)
    /\ LET table      == filtered_layout[tbl]
           block_rect == candidate_blocks[blk]
           rel_coords == <<table.x_1, table.y_1, table.x_2, table.y_2>>
           box        == from_relative(rel_coords, to_list(block_rect), table.score)
       IN  boxes' = add_box(boxes, box)
    /\ tbl' = tbl + 1
    /\ UNCHANGED <<candidate_blocks, score_thresh, blk, filtered_layout, dpc, layout_log>>

TablesDone ==
    /\ dpc = "tables"
    /\ tbl > Len(filtered_layout)
    /\ dpc' = "blocks"
    /\ UNCHANGED <<boxes, candidate_blocks, score_thresh, blk, filtered_layout, tbl,
                   layout_log>>

\* return all_boxes
Return ==
    /\ dpc = "blocks"
    /\ blk = Len(candidate_blocks)
    /\ dpc' = "done"
    /\ UNCHANGED <<boxes, candidate_blocks, score_thresh, blk, filtered_layout, tbl,
                   layout_log>>

----------------------------------------------------------------------------
(* Specifications *)

IdleMerge ==
    /\ boxes = <<>>
    /\ merged_boxes = <<>>
    /\ current_box = <<>>
    /\ i = 1
    /\ pc = "build"
    /\ input = <<>>
    /\ src = [boxes |-> <<>>, current |-> {}, merged |-> <<>>]
    /\ ncalls = 0

IdleBox ==
    /\ a = BoundingBox(0, 0, 0, 0, 0)
    /\ b = BoundingBox(0, 0, 0, 0, 0)
    /\ called = "none"
    /\ result = <<>>

IdleDetect ==
    /\ candidate_blocks = <<>>
    /\ score_thresh = 0
    /\ blk = 0
    /\ filtered_layout = <<>>
    /\ tbl = 1
    /\ dpc = "idle"
    /\ layout_log = <<>>

InitBox ==
    /\ a \in OperandBoxes
    /\ b \in OperandBoxes
    /\ called = "none"
    /\ result = <<>>
    /\ IdleMerge
    /\ IdleDetect

NextBox ==
    \/ CallIntersects /\ UNCHANGED <<mvars, dvars>>
    \/ CallMerge /\ UNCHANGED <<mvars, dvars>>

SpecBox == InitBox /\ [][NextBox]_vars

InitMerge == IdleMerge /\ IdleBox /\ IdleDetect

NextMerge ==
    \/ \E box \in AddedBoxes : AddBox(box) /\ UNCHANGED <<bvars, dvars>>
    \/ MergeStart /\ UNCHANGED <<bvars, dvars>>
    \/ OuterPop /\ UNCHANGED <<bvars, dvars>>
    \/ InnerMerge /\ UNCHANGED <<bvars, dvars>>
    \/ InnerSkip /\ UNCHANGED <<bvars, dvars>>
    \/ InnerExit /\ UNCHANGED <<bvars, dvars>>
    \/ OuterExit /\ UNCHANGED <<bvars, dvars>>

SpecMerge == InitMerge /\ [][NextMerge]_vars

NextTwice ==
    \/ NextMerge
    \/ MergeAgain /\ UNCHANGED <<bvars, dvars>>

SpecTwice == InitMerge /\ [][NextTwice]_vars

InitDetect ==
    /\ candidate_blocks \in SeqsOver(BlockRects, 0..MaxBlocks)
    /\ score_thresh \in ScoreRange
    /\ blk = 0
    /\ filtered_layout = <<>>
    /\ tbl = 1
    /\ dpc = "blocks"
    /\ layout_log = <<>>
    /\ IdleMerge
    /\ IdleBox

NextDetect ==
    \/ DetectBlock /\ UNCHANGED <<merged_boxes, current_box, i, pc, input, src, ncalls, bvars>>
    \/ AddTable /\ UNCHANGED <<merged_boxes, current_box, i, pc, input, src, ncalls, bvars>>
    \/ TablesDone /\ UNCHANGED <<merged_boxes, current_box, i, pc, input, src, ncalls, bvars>>
    \/ Return /\ UNCHANGED <<merged_boxes, current_box, i, pc, input, src, ncalls, bvars>>

SpecDetect == InitDetect /\ [][NextDetect]_vars

----------------------------------------------------------------------------
(* Vocabulary of the properties *)

AsSet(s) == {s[n] : n \in 1..Len(s)}

Coordinates(bx) == <<bx.x1, bx.y1, bx.x2, bx.y2>>

\* bx covers every point of inner
Contains(bx, inner) ==
    /\ bx.x1 <= inner.x1 /\ inner.x2 <= bx.x2
    /\ bx.y1 <= inner.y1 /\ inner.y2 <= bx.y2

Least(S)    == CHOOSE m \in S : \A n \in S : m <= n
Greatest(S) == CHOOSE m \in S : \A n \in S : m >= n

\* minimal enclosing rectangle of a non-empty set of boxes, with their highest score
Hull(S) ==
    BoundingBox(Least({bx.x1 : bx \in S}), Least({bx.y1 : bx \in S}),
                Greatest({bx.x2 : bx \in S}), Greatest({bx.y2 : bx \in S}),
                Greatest({bx.score : bx \in S}))

InCall   == pc \in {"outer", "inner"}
Returned == pc = "done"

\* the boxes merge_intersection holds at this point: result so far, accumulator, pending
LiveBoxes ==
    IF Returned THEN boxes
    ELSE merged_boxes \o (IF pc = "inner" THEN current_box ELSE <<>>) \o boxes

LiveGroups ==
    IF Returned THEN src.boxes
    ELSE src.merged \o (IF pc = "inner" THEN <<src.current>> ELSE <<>>) \o src.boxes

\* the overlap graph of a list of boxes is connected
RECURSIVE Reach(_, _)
Reach(s, seen) ==
    LET more == {n \in 1..Len(s) : \E m \in seen : intersects(s[m], s[n])}
    IN  IF more \subseteq seen THEN seen ELSE Reach(s, seen \cup more)

Connected(s) == s # <<>> /\ Reach(s, {1}) = 1..Len(s)

Reorder(s, p) == [n \in 1..Len(s) |-> s[p[n]]]

----------------------------------------------------------------------------
(* Claims about merge_intersection *)

\* C1: after merge_intersection returns, no two distinct boxes of the
\* resulting collection intersect.
C1_NoTwoResultBoxesIntersect ==
    Returned =>
        \A m, n \in 1..Len(boxes) : m # n => ~intersects(boxes[m], boxes[n])

\* C3: an input whose overlap graph is connected is merged into exactly one
\* box, the minimal enclosing rectangle of all input boxes.
C3_ChainBecomesOneBox ==
    (Returned /\ Connected(input)) =>
        /\ Len(boxes) = 1
        /\ Coordinates(boxes[1]) = Coordinates(Hull(AsSet(input)))

\* C4: the merged set does not depend on the order in which the boxes were
\* added: every permutation of the input gives the same set of result boxes.
C4_OrderDoesNotMatter ==
    Returned =>
        \A p \in Permutations(1..Len(input)) :
            AsSet(merge_intersection(Reorder(input, p))) = AsSet(boxes)

\* C8: whenever the accumulator is about to be appended to merged_boxes (the
\* inner scan has run off the end), no box left in the pending list
\* intersects it.
C8_AppendOnlyWhenNothingIntersects ==
    (pc = "inner" /\ i > Len(boxes)) =>
        \A n \in 1..Len(boxes) : ~intersects(current_box[1], boxes[n])

\* rank of a state of the call: drops on every step until the call returns
Rank ==
    LET w == Len(input) + 2
    IN  CASE pc = "outer" -> w * Len(boxes)
          [] pc = "inner" -> w * Len(boxes) + 1 + (Len(boxes) + 1 - i)
          [] OTHER        -> 0 - 1

C9_Step ==
    /\ (pc = "inner" /\ pc' = "inner") =>
            \/ Len(boxes') = Len(boxes) - 1 /\ i' = i
            \/ boxes' = boxes /\ i' = i + 1
    /\ (InCall /\ pc' = "done") => (pc = "outer" /\ boxes = <<>>)
    /\ InCall => (Rank' < Rank /\ Rank' >= 0 - 1)

C9_State ==
    /\ InCall => ENABLED (OuterPop \/ InnerMerge \/ InnerSkip \/ InnerExit \/ OuterExit)
    /\ Returned =>
            /\ Len(boxes) <= Len(input)
            /\ (input # <<>>) => Len(boxes) >= 1
            /\ Len(input) <= 1 => boxes = input

\* C9: merge_intersection terminates: every inner step removes a pending box
\* or advances the scan index, every step of the call lowers a rank bounded
\* below, no step is stuck, the outer loop ends on an empty pending list, and
\* the result has between one (for a non-empty input) and Len(input) boxes.
C9_Terminates == []C9_State /\ [][C9_Step]_vars

\* C10: at every step of merge_intersection every input box lies inside a
\* live box, the live boxes are the minimal enclosing rectangles of groups
\* that partition the input, and each carries the highest score of its group.
C10_Coverage ==
    (InCall \/ Returned) =>
        /\ \A n \in 1..Len(input) :
               \E m \in 1..Len(LiveBoxes) : Contains(LiveBoxes[m], input[n])
        /\ Len(LiveGroups) = Len(LiveBoxes)
        /\ \A m \in 1..Len(LiveGroups) :
               /\ LiveGroups[m] # {}
               /\ LiveBoxes[m] = Hull({input[n] : n \in LiveGroups[m]})
        /\ \A m, n \in 1..Len(LiveGroups) :
               m # n => LiveGroups[m] \cap LiveGroups[n] = {}
        /\ UNION {LiveGroups[m] : m \in 1..Len(LiveGroups)} = 1..Len(input)

C9_Witness == Returned /\ Len(input) >= 3 /\ Len(boxes) = 2

C10_Witness ==
    /\ Returned
    /\ \E m \in 1..Len(boxes) :
          /\ Cardinality(LiveGroups[m]) >= 2
          /\ \A n \in LiveGroups[m] :
                input[n].score < boxes[m].score \/ ~Contains(input[n], boxes[m])

\* C2: a second merge_intersection call right after the first leaves the same
\* set of boxes (input is the collection as the latest call found it).
C2_SecondCallChangesNothing ==
    (Returned /\ ncalls = 2) => AsSet(boxes) = AsSet(input)

----------------------------------------------------------------------------
(* Claims about BoundingBox.merge and BoundingBox.intersects *)

C6_State ==
    called = "merge" =>
        LET r == result[1]
        IN  /\ r = Hull({a, b})
            /\ r.x1 = Min(a.x1, b.x1) /\ r.y1 = Min(a.y1, b.y1)
            /\ r.x2 = Max(a.x2, b.x2) /\ r.y2 = Max(a.y2, b.y2)
            /\ r.score = Max(a.score, b.score)
            /\ Contains(r, a) /\ Contains(r, b)
            /\ merge(b, a) = r
            /\ merge(a, a) = a
            /\ \A c \in OperandBoxes : merge(r, c) = merge(a, merge(b, c))

\* C6: a.merge(b) is the minimal enclosing rectangle of a and b with the
\* higher of the two scores; merge is commutative, associative and
\* idempotent, and the call leaves a and b as they were.
C6_MergeIsEnclosingHull == []C6_State /\ [][a' = a /\ b' = b]_vars

C6_Witness ==
    /\ called = "merge"
    /\ result[1] # a /\ result[1] # b
    /\ a.score < b.score /\ a.x1 < b.x1 /\ a.y2 > b.y2

\* the closed rectangles p and q have a point in common
SharePoint(p, q) ==
    \E px \in 0..MaxCoord, py \in 0..MaxCoord :
        /\ p.x1 <= px /\ px <= p.x2 /\ p.y1 <= py /\ py <= p.y2
        /\ q.x1 <= px /\ px <= q.x2 /\ q.y1 <= py /\ py <= q.y2

\* one box lies strictly beyond the other along the x axis or the y axis
Beyond(p, q) ==
    \/ p.x2 < q.x1 \/ q.x2 < p.x1
    \/ p.y2 < q.y1 \/ q.y2 < p.y1

\* C7: a.intersects(b) is true exactly when the closed rectangles share a
\* point (touching edges and corners included), false exactly when one lies
\* strictly beyond the other along an axis, and equal to b.intersects(a).
C7_IntersectsIsClosedOverlap ==
    called = "intersects" =>
        /\ result[1] = SharePoint(a, b)
        /\ result[1] = ~Beyond(a, b)
        /\ result[1] = intersects(b, a)

\* two boxes of positive area that meet in a single corner point
C7_Witness ==
    /\ called = "intersects"
    /\ a.x1 < a.x2 /\ a.y1 < a.y2 /\ b.x1 < b.x2 /\ b.y1 < b.y2
    /\ a.x2 = b.x1 /\ a.y2 = b.y1
    /\ result[1] = TRUE

----------------------------------------------------------------------------
(* Claims about double_detection *)

\* the detection d of a block at block_rect, in absolute coordinates
Absolute(d, block_rect) ==
    BoundingBox(d.x_1 + block_rect.x1, d.y_1 + block_rect.y1,
                d.x_2 + block_rect.x1, d.y_2 + block_rect.y1, d.score)

AboveThreshold(layout) == SelectSeq(layout, LAMBDA d : d.score > score_thresh)

\* the absolute boxes of the detections above the threshold, blocks n.. in order
RECURSIVE ExpectedFrom(_)
ExpectedFrom(n) ==
    IF n > Len(layout_log) THEN <<>>
    ELSE LET kept == AboveThreshold(layout_log[n])
         IN  [m \in 1..Len(kept) |-> Absolute(kept[m], candidate_blocks[n])]
             \o ExpectedFrom(n + 1)

\* C5: double_detection returns exactly one box per detection scoring above
\* score_thresh, none for the others, duplicates kept, each the detection's
\* box moved by the (x1, y1) of its block and carrying the detection's score.
C5_AbsoluteBoxPerKeptDetection ==
    dpc = "done" =>
        /\ Len(layout_log) = Len(candidate_blocks)
        /\ boxes = ExpectedFrom(1)

\* a block away from the origin with one detection kept and one dropped at
\* the threshold, and some box returned twice
C5_Witness ==
    /\ dpc = "done"
    /\ \E n \in 1..Len(candidate_blocks) :
          /\ candidate_blocks[n].x1 > 0
          /\ \E m \in 1..Len(layout_log[n]) : layout_log[n][m].score > score_thresh
          /\ \E m \in 1..Len(layout_log[n]) : layout_log[n][m].score = score_thresh
    /\ \E m, n \in 1..Len(boxes) : m # n /\ boxes[m] = boxes[n]

====
